---- MODULE Spec2Model ----
(***************************************************************************)
(* Gecko code configuration (Source/Core/Core/GeckoCodeConfig.cpp):        *)
(* parsing the [Gecko] section of an INI file into GeckoCode records,      *)
(* merging the global and the local INI, marking enabled / bootstrap       *)
(* codes from [Gecko_Enabled], and writing a set of codes back.            *)
(*                                                                         *)
(* A std::string is a sequence of one-character strings, so that the       *)
(* parser's character-level steps (seekg, getline on '[' and ']',          *)
(* StripSpaces, operator>> with std::hex) are computed, not assumed.       *)
(***************************************************************************)
EXTENDS Naturals, Sequences, FiniteSets

VARIABLES
    globalIni,    \* the global IniFile: section name -> lines
    localIni,     \* the local (user) IniFile
    working_set,  \* the caller's std::vector<GeckoCode>
    op,           \* history: the operation that produced this state
    prev_set,     \* history: working_set before that operation
    prev_local,   \* history: localIni before that operation
    stage,        \* history: position in the caller's load / save / reload cycle
    saved_set     \* history: the working set handed to the last FillIni of the cycle

vars == <<globalIni, localIni, working_set, op, prev_set, prev_local, stage, saved_set>>

-----------------------------------------------------------------------------
(* Bounds of the checked inputs.                                           *)

MaxParseLines == 3
MaxGlobalLines == 2
MaxLocalLines == 2
MaxMarkCodes == 2
MaxEnabledLines == 2
MaxBootLines == 1

SeqUpTo(S, n) == UNION {[1..k -> S] : k \in 0..n}

-----------------------------------------------------------------------------
(* Strings.                                                                *)

\* Common/StringUtil StripSpaces: the string without its leading and
\* trailing whitespace.
StripSpaces(s) ==
    LET ws   == {" ", "\t", "\r", "\n"}
        keep == {i \in 1..Len(s) : s[i] \notin ws}
    IN  IF keep = {} THEN <<>>
        ELSE LET first == CHOOSE i \in keep : \A j \in keep : i <= j
                 last  == CHOOSE i \in keep : \A j \in keep : j <= i
             IN  SubSeq(s, first, last)

\* std::istringstream ss(line): the buffer, the get position, and good().
IStringStream(line) == [buf |-> line, pos |-> 0, good |-> TRUE]

\* ss.seekg(n, std::ios_base::cur)
Seekg(ss, n) ==
    IF ss.good /\ ss.pos + n <= Len(ss.buf)
    THEN [ss EXCEPT !.pos = ss.pos + n]
    ELSE [ss EXCEPT !.good = FALSE]

\* std::getline(ss, str, delim): on a stream that is not good() the string is
\* left as it was; otherwise it receives the characters up to the delimiter
\* (extracted, not stored) or up to the end of the buffer (eofbit).
Getline(ss, str, delim) ==
    IF ~ss.good THEN [str |-> str, ss |-> ss]
    ELSE LET rest == SubSeq(ss.buf, ss.pos + 1, Len(ss.buf))
             hits == {i \in 1..Len(rest) : rest[i] = delim}
         IN  IF hits = {}
             THEN [str |-> rest,
                   ss  |-> [ss EXCEPT !.pos = Len(ss.buf), !.good = FALSE]]
             ELSE LET at == CHOOSE i \in hits : \A j \in hits : i <= j
                  IN  [str |-> SubSeq(rest, 1, at - 1),
                       ss  |-> [ss EXCEPT !.pos = ss.pos + at]]

HexDigits == <<"0", "1", "2", "3", "4", "5", "6", "7", "8", "9",
               "A", "B", "C", "D", "E", "F">>
HexLower == <<"0", "1", "2", "3", "4", "5", "6", "7", "8", "9",
              "a", "b", "c", "d", "e", "f">>

IsHexDigit(c) == \E k \in 1..16 : HexDigits[k] = c \/ HexLower[k] = c

HexDigitValue(c) == (CHOOSE k \in 1..16 : HexDigits[k] = c \/ HexLower[k] = c) - 1

\* The value of a run of hexadecimal digits.  The lines of the checked
\* inputs hold fewer than eight digits in a run, so no run exceeds a u32.
RECURSIVE HexValue(_, _)
HexValue(digits, acc) ==
    IF digits = <<>> THEN acc
    ELSE HexValue(Tail(digits), acc * 16 + HexDigitValue(Head(digits)))

\* ss >> std::hex >> value for a u32: skip whitespace, read the hexadecimal
\* digits that follow; with no digit the extraction fails, the value is 0 and
\* the stream is no longer good().  On a stream that is not good() the value
\* is left as it was.
ExtractHex(ss, value) ==
    IF ~ss.good THEN [value |-> value, ss |-> ss]
    ELSE LET n     == Len(ss.buf)
             ws    == {" ", "\t", "\r", "\n"}
             nonws == {i \in (ss.pos + 1)..n : ss.buf[i] \notin ws}
         IN  IF nonws = {}
             THEN [value |-> 0, ss |-> [ss EXCEPT !.pos = n, !.good = FALSE]]
             ELSE LET start == CHOOSE i \in nonws : \A j \in nonws : i <= j
                      stops == {i \in start..n : ~IsHexDigit(ss.buf[i])}
                      stop  == IF stops = {} THEN n + 1
                               ELSE CHOOSE i \in stops : \A j \in stops : i <= j
                  IN  IF stop = start
                      THEN [value |-> 0,
                            ss |-> [ss EXCEPT !.pos = start - 1, !.good = FALSE]]
                      ELSE [value |-> HexValue(SubSeq(ss.buf, start, stop - 1), 0),
                            ss |-> [ss EXCEPT !.pos = stop - 1, !.good = (stop <= n)]]

-----------------------------------------------------------------------------
(* Core/GeckoCodeConfig.h and Common/IniFile.h.                            *)

\* GeckoCode(): an entry with no name, no codes, and its flags false.
GeckoCode ==
    [name |-> <<>>, creator |-> <<>>, notes |-> <<>>, codes |-> <<>>,
     enabled |-> FALSE, bootstrap_enabled |-> FALSE, user_defined |-> FALSE]

\* GeckoCode::Code(): address and data are 0.
Code == [address |-> 0, data |-> 0, original_line |-> <<>>]

\* IniFile::GetLines(section, &lines, false): the section's lines, in order.
GetLines(ini, section) == ini[section]

\* IniFile::SetLines(section, lines): the section's lines are replaced.
SetLines(ini, section, lines) == [ini EXCEPT ![section] = lines]

EmptyIni == [Gecko |-> <<>>, Gecko_Enabled |-> <<>>]

-----------------------------------------------------------------------------
(* ParseCodes.                                                             *)

\* The body of `default:` in ParseCodes' switch: the code of one line.
NewCode(line) ==
    LET a == ExtractHex(IStringStream(line), Code.address)
        d == ExtractHex(a.ss, Code.data)
    IN  [address |-> a.value, data |-> d.value, original_line |-> line]

\* The body of `case '$':` after the push_back: the entry a header starts.
NewEntry(line, is_user_ini) ==
    LET ss0 == Seekg(IStringStream(line), 1)
        n   == Getline(ss0, GeckoCode.name, "[")
        c   == Getline(n.ss, GeckoCode.creator, "]")
    IN  [GeckoCode EXCEPT !.user_defined = is_user_ini,
                          !.name = StripSpaces(n.str),
                          !.creator = c.str]

\* `if (gcode.name.size()) gcodes.push_back(gcode);`
\* (Fault for C8: the entry is pushed whatever its name.)
PushIfNamedAlways(gcodes, gcode) == Append(gcodes, gcode)

PushIfNamed(gcodes, gcode) ==
    IF Len(gcode.name) > 0 THEN Append(gcodes, gcode) ELSE gcodes

\* (Fault for C9: a line that decodes to nothing is not kept as a code.)
ParseLineSkipsBadHex(st, line, is_user_ini) ==
    IF line = <<>> THEN st
    ELSE IF line[1] = "$"
    THEN [gcode  |-> NewEntry(line, is_user_ini),
          gcodes |-> PushIfNamed(st.gcodes, st.gcode)]
    ELSE IF line[1] = "*"
    THEN [st EXCEPT !.gcode.notes = Append(@, Tail(line))]
    ELSE IF NewCode(line).address = 0 /\ NewCode(line).data = 0 THEN st
    ELSE [st EXCEPT !.gcode.codes = Append(@, NewCode(line))]

\* One iteration of ParseCodes' loop; st is [gcode, gcodes].
ParseLine(st, line, is_user_ini) ==
    IF line = <<>> THEN st
    ELSE IF line[1] = "$"
    THEN [gcode  |-> NewEntry(line, is_user_ini),
          gcodes |-> PushIfNamed(st.gcodes, st.gcode)]
    ELSE IF line[1] = "*"
    THEN [st EXCEPT !.gcode.notes = Append(@, Tail(line))]
    ELSE [st EXCEPT !.gcode.codes = Append(@, NewCode(line))]

RECURSIVE ParseLoop(_, _, _)
ParseLoop(st, lines, is_user_ini) ==
    IF lines = <<>> THEN st
    ELSE ParseLoop(ParseLine(st, Head(lines), is_user_ini), Tail(lines), is_user_ini)

\* ParseCodes(ini, gcodes, is_user_ini): gcodes with the entries of ini's
\* [Gecko] section appended.
ParseCodes(ini, gcodes, is_user_ini) ==
    LET st == ParseLoop([gcode |-> GeckoCode, gcodes |-> gcodes],
                        GetLines(ini, "Gecko"), is_user_ini)
    IN  PushIfNamed(st.gcodes, st.gcode)

-----------------------------------------------------------------------------
(* MarkEnabledCodes, MarkBootstrapCodes.                                   *)

\* (Fault for C4: the flag is assigned the result of the comparison.)
MarkEnabledLineResets(gcodes, line) ==
    IF Len(line) = 0 \/ line[1] # "$" THEN gcodes
    ELSE [i \in DOMAIN gcodes |->
            [gcodes[i] EXCEPT !.enabled = (gcodes[i].name = Tail(line))]]

\* (Fault for C5: the scan stops at the first entry with the name.)
MarkEnabledLineFirstOnly(gcodes, line) ==
    IF Len(line) = 0 \/ line[1] # "$" THEN gcodes
    ELSE [i \in DOMAIN gcodes |->
            IF /\ gcodes[i].name = Tail(line)
               /\ \A j \in 1..(i - 1) : gcodes[j].name # Tail(line)
            THEN [gcodes[i] EXCEPT !.enabled = TRUE]
            ELSE gcodes[i]]

\* The inner loop of MarkEnabledCodes for one line of [Gecko_Enabled].
MarkEnabledLine(gcodes, line) ==
    IF Len(line) = 0 \/ line[1] # "$" THEN gcodes
    ELSE [i \in DOMAIN gcodes |->
            IF gcodes[i].name = Tail(line)
            THEN [gcodes[i] EXCEPT !.enabled = TRUE]
            ELSE gcodes[i]]

RECURSIVE MarkEnabledLoop(_, _)
MarkEnabledLoop(gcodes, lines) ==
    IF lines = <<>> THEN gcodes
    ELSE MarkEnabledLoop(MarkEnabledLine(gcodes, Head(lines)), Tail(lines))

MarkEnabledCodes(ini, gcodes) ==
    MarkEnabledLoop(gcodes, GetLines(ini, "Gecko_Enabled"))

\* The inner loop of MarkBootstrapCodes for one line of [Gecko_Enabled].
MarkBootstrapLine(gcodes, line) ==
    IF Len(line) = 0 \/ line[1] # "$" THEN gcodes
    ELSE [i \in DOMAIN gcodes |->
            IF gcodes[i].name = Tail(line)
            THEN [gcodes[i] EXCEPT !.bootstrap_enabled = TRUE]
            ELSE gcodes[i]]

RECURSIVE MarkBootstrapLoop(_, _)
MarkBootstrapLoop(gcodes, lines) ==
    IF lines = <<>> THEN gcodes
    ELSE MarkBootstrapLoop(MarkBootstrapLine(gcodes, Head(lines)), Tail(lines))

MarkBootstrapCodes(ini, gcodes) ==
    MarkBootstrapLoop(gcodes, GetLines(ini, "Gecko_Enabled"))

-----------------------------------------------------------------------------
(* MergeCodes.                                                             *)

\* (Fault for C2: no scan for a conflict.)
AddLocalAlways(ws, local_code) == Append(ws, local_code)

\* (Fault for C1: the scan looks at the global entries only.)
AddLocalUnlessGlobal(ws, local_code) ==
    IF \E i \in DOMAIN ws :
          ~ws[i].user_defined /\ ws[i].name = local_code.name
    THEN ws
    ELSE Append(ws, local_code)

\* One iteration of the loop over local_codes: the scan for a conflict and
\* the push_back.
AddLocal(ws, local_code) ==
    IF \E i \in DOMAIN ws : ws[i].name = local_code.name
    THEN ws
    ELSE Append(ws, local_code)

RECURSIVE AddLocalLoop(_, _)
AddLocalLoop(ws, local_codes) ==
    IF local_codes = <<>> THEN ws
    ELSE AddLocalLoop(AddLocal(ws, Head(local_codes)), Tail(local_codes))

MergeCodes(gIni, lIni, ws) ==
    LET global_codes == ParseCodes(gIni, <<>>, FALSE)
        local_codes  == ParseCodes(lIni, <<>>, TRUE)
    IN  AddLocalLoop(ws \o global_codes, local_codes)

-----------------------------------------------------------------------------
(* FillLines, FillIni, BootstrapLocalConfig.                               *)

\* (Fault for C3: the creator is not written.)
HeaderLineNoCreator(gcode) == <<"$">> \o gcode.name

\* The header line FillLines writes: "$" + name, and " [" + creator + "]"
\* when there is a creator.
HeaderLine(gcode) ==
    <<"$">> \o gcode.name \o
    (IF Len(gcode.creator) > 0 THEN <<" ", "[">> \o gcode.creator \o <<"]">>
     ELSE <<>>)

\* (Fault for C6: no return for an entry that is not user_defined.)
FillLinesWritesGlobal(out, gcode) ==
    [enabledLines |-> IF gcode.enabled
                      THEN Append(out.enabledLines, <<"$">> \o gcode.name)
                      ELSE out.enabledLines,
     lines |-> out.lines \o <<HeaderLine(gcode)>>
                  \o [k \in 1..Len(gcode.codes) |-> gcode.codes[k].original_line]
                  \o [k \in 1..Len(gcode.notes) |-> <<"*">> \o gcode.notes[k]]]

\* (Fault for C10: the return for a global entry comes before the enabled
\* line.)
FillLinesLocalMarkersOnly(out, gcode) ==
    IF ~gcode.user_defined THEN out
    ELSE [enabledLines |-> IF gcode.enabled
                           THEN Append(out.enabledLines, <<"$">> \o gcode.name)
                           ELSE out.enabledLines,
          lines |-> out.lines \o <<HeaderLine(gcode)>>
                  \o [k \in 1..Len(gcode.codes) |-> gcode.codes[k].original_line]
                  \o [k \in 1..Len(gcode.notes) |-> <<"*">> \o gcode.notes[k]]]

\* FillLines(lines, enabledLines, gcode); out is [lines, enabledLines].
FillLines(out, gcode) ==
    LET enabledLines == IF gcode.enabled
                        THEN Append(out.enabledLines, <<"$">> \o gcode.name)
                        ELSE out.enabledLines
    IN  IF ~gcode.user_defined
        THEN [lines |-> out.lines, enabledLines |-> enabledLines]
        ELSE [enabledLines |-> enabledLines,
              lines |-> out.lines \o <<HeaderLine(gcode)>>
                  \o [k \in 1..Len(gcode.codes) |-> gcode.codes[k].original_line]
                  \o [k \in 1..Len(gcode.notes) |-> <<"*">> \o gcode.notes[k]]]

RECURSIVE FillLoop(_, _)
FillLoop(out, gcodes) ==
    IF gcodes = <<>> THEN out
    ELSE FillLoop(FillLines(out, Head(gcodes)), Tail(gcodes))

FillIni(inifile, gcodes) ==
    LET out == FillLoop([lines |-> <<>>, enabledLines |-> <<>>], gcodes)
    IN  SetLines(SetLines(inifile, "Gecko", out.lines),
                 "Gecko_Enabled", out.enabledLines)

RECURSIVE BootstrapLoop(_, _)
BootstrapLoop(enabledLines, global_codes) ==
    IF global_codes = <<>> THEN enabledLines
    ELSE BootstrapLoop(
            IF Head(global_codes).bootstrap_enabled
            THEN Append(enabledLines, <<"$">> \o Head(global_codes).name)
            ELSE enabledLines,
            Tail(global_codes))

\* (Fault for C7: the lines are those of the enabled entries.)
BootstrapLocalConfigFromEnabled(local_ini, global_codes) ==
    SetLines(local_ini, "Gecko_Enabled",
             FillLoop([lines |-> <<>>, enabledLines |-> <<>>],
                      global_codes).enabledLines)

\* BootstrapLocalConfig(local_ini, global_codes)
BootstrapLocalConfig(local_ini, global_codes) ==
    SetLines(local_ini, "Gecko_Enabled", BootstrapLoop(<<>>, global_codes))

-----------------------------------------------------------------------------
(* The operations as steps of a caller that owns one working set.          *)

\* The caller's place in a load / edit / save / reload cycle:
\*   empty -MergeCodes-> merged -MarkEnabledCodes-> loaded -Toggle*-> loaded
\*   -FillIni-> saved -Discard-> saved_empty -MergeCodes-> remerged
\*   -MarkEnabledCodes-> reloaded (which is loaded again for the next cycle).
StageAfter(s, o) ==
    CASE o = "Discard" ->
            IF s = "saved" THEN "saved_empty" ELSE "empty"
      [] o = "MergeCodes" ->
            IF s = "empty" THEN "merged"
            ELSE IF s = "saved_empty" THEN "remerged" ELSE "other"
      [] o = "MarkEnabledCodes" ->
            IF s = "merged" THEN "loaded"
            ELSE IF s = "remerged" THEN "reloaded" ELSE "other"
      [] o = "Toggle" ->
            IF s \in {"loaded", "reloaded"} THEN "loaded" ELSE "other"
      [] o = "FillIni" ->
            IF s \in {"loaded", "reloaded"} THEN "saved" ELSE "other"
      [] OTHER -> "other"

Record(o) ==
    /\ op' = o
    /\ prev_set' = working_set
    /\ prev_local' = localIni
    /\ stage' = StageAfter(stage, o)
    /\ saved_set' = IF o = "FillIni" THEN working_set ELSE saved_set

\* ParseCodes(globalIni, gcodes, false) or ParseCodes(localIni, gcodes, true)
\* into a freshly constructed vector.
ParseCodesAct ==
    \E is_user_ini \in BOOLEAN :
        /\ working_set = <<>>
        /\ working_set' = ParseCodes(IF is_user_ini THEN localIni ELSE globalIni,
                                     working_set, is_user_ini)
        /\ Record(IF is_user_ini THEN "ParseCodes(local)" ELSE "ParseCodes(global)")
        /\ UNCHANGED <<globalIni, localIni>>

\* MergeCodes(globalIni, localIni, working_set) into a freshly constructed vector.
MergeCodesAct ==
    /\ working_set = <<>>
    /\ working_set' = MergeCodes(globalIni, localIni, working_set)
    /\ Record("MergeCodes")
    /\ UNCHANGED <<globalIni, localIni>>

MarkEnabledCodesAct ==
    /\ working_set' = MarkEnabledCodes(localIni, working_set)
    /\ Record("MarkEnabledCodes")
    /\ UNCHANGED <<globalIni, localIni>>

MarkBootstrapCodesAct ==
    /\ working_set' = MarkBootstrapCodes(globalIni, working_set)
    /\ Record("MarkBootstrapCodes")
    /\ UNCHANGED <<globalIni, localIni>>

BootstrapLocalConfigAct ==
    /\ localIni' = BootstrapLocalConfig(localIni, working_set)
    /\ Record("BootstrapLocalConfig")
    /\ UNCHANGED <<globalIni, working_set>>

FillIniAct ==
    /\ localIni' = FillIni(localIni, working_set)
    /\ Record("FillIni")
    /\ UNCHANGED <<globalIni, working_set>>

\* The caller switches one entry's `enabled` (the code list of the UI).
ToggleAct ==
    \E i \in DOMAIN working_set :
        /\ working_set' = [working_set EXCEPT ![i].enabled = ~@]
        /\ Record("Toggle")
        /\ UNCHANGED <<globalIni, localIni>>

\* The caller drops the working set and constructs a new, empty vector.
DiscardAct ==
    /\ working_set # <<>>
    /\ working_set' = <<>>
    /\ Record("Discard")
    /\ UNCHANGED <<globalIni, localIni>>

InitWith(g, l) ==
    /\ globalIni = g
    /\ localIni = l
    /\ working_set = <<>>
    /\ op = "Init"
    /\ prev_set = <<>>
    /\ prev_local = l
    /\ stage = "empty"
    /\ saved_set = <<>>

-----------------------------------------------------------------------------
(* Parsing one [Gecko] section, and writing the parsed codes back.         *)

\* Lines of a [Gecko] section: empty, headers ("$A", "$ A" with a space to
\* strip, "$A [c]", "$A []" with an empty creator, "$ [c]" with no name,
\* "$B[d [" with no closing bracket), notes ("*n", "*"), a code line ("1 A"),
\* a line whose second number does not decode ("1Z") and a line that is no
\* hexadecimal pair ("ZZ").
ParsePool ==
    { <<>>,
      <<"$", "A">>,
      <<"$", " ", "A">>,
      <<"$", "A", " ", "[", "c", "]">>,
      <<"$", "A", " ", "[", "]">>,
      <<"$", " ", "[", "c", "]">>,
      <<"$", "B", "[", "d", " ", "[">>,
      <<"*", "n">>,
      <<"*">>,
      <<"1", " ", "A">>,
      <<"1", "Z">>,
      <<"Z", "Z">> }

InitParse ==
    \E lines \in SeqUpTo(ParsePool, MaxParseLines) : \E u \in BOOLEAN :
        InitWith(IF u THEN EmptyIni ELSE [EmptyIni EXCEPT !.Gecko = lines],
                 IF u THEN [EmptyIni EXCEPT !.Gecko = lines] ELSE EmptyIni)

NextParse == ParseCodesAct \/ FillIniAct \/ DiscardAct

SpecParse == InitParse /\ [][NextParse]_vars

-----------------------------------------------------------------------------
(* Merging the global and the local [Gecko] sections.                      *)

MergePool ==
    { <<"$", "A">>,
      <<"$", "A", " ", "[", "c", "]">>,
      <<"$", "B">>,
      <<"$", "C">>,
      <<"1", " ", "A">> }

InitMerge ==
    \E g \in SeqUpTo(MergePool, MaxGlobalLines) :
    \E l \in SeqUpTo(MergePool, MaxLocalLines) :
        InitWith([EmptyIni EXCEPT !.Gecko = g], [EmptyIni EXCEPT !.Gecko = l])

NextMerge == MergeCodesAct \/ DiscardAct

SpecMerge == InitMerge /\ [][NextMerge]_vars

-----------------------------------------------------------------------------
(* Marking enabled and bootstrap codes, and bootstrapping the local INI.   *)

MarkCodePool == { <<"$", "X">>, <<"$", "Y">> }

\* Lines of a [Gecko_Enabled] section: "$X", "$Y", "X" (no '$'), the empty
\* line, and "$XY" (a name that X and Y are only parts of).
EnabledPool ==
    { <<"$", "X">>, <<"$", "Y">>, <<"X">>, <<>>, <<"$", "X", "Y">> }

BootPool == { <<"$", "X">>, <<"$", "Y">> }

InitMark ==
    \E g \in SeqUpTo(MarkCodePool, MaxMarkCodes) :
    \E ge \in SeqUpTo(BootPool, MaxBootLines) :
    \E le \in SeqUpTo(EnabledPool, MaxEnabledLines) :
        InitWith([Gecko |-> g, Gecko_Enabled |-> ge],
                 [Gecko |-> << <<"$", "Z">>, <<"1", " ", "A">> >>,
                  Gecko_Enabled |-> le])

NextMark ==
    \/ MergeCodesAct
    \/ MarkEnabledCodesAct
    \/ MarkBootstrapCodesAct
    \/ BootstrapLocalConfigAct

SpecMark == InitMark /\ [][NextMark]_vars

-----------------------------------------------------------------------------
(* The load / edit / save / reload cycle.                                  *)

SaveGlobalPool == { <<"$", "A">>, <<"$", "B">> }

SaveLocalPool ==
    { <<"$", "A", " ", "[", "c", "]">>,
      <<"$", "C", " ", "[", "c", "]">>,
      <<"$", "C">>,
      <<"1", " ", "A">>,
      <<"*", "n">> }

SaveEnabled == { <<>>, << <<"$", "A">> >>, << <<"$", "C">>, <<"$", "A">> >> }

Init ==
    \E g \in SeqUpTo(SaveGlobalPool, MaxGlobalLines) :
    \E l \in SeqUpTo(SaveLocalPool, MaxLocalLines) :
    \E le \in SaveEnabled :
        InitWith([EmptyIni EXCEPT !.Gecko = g],
                 [Gecko |-> l, Gecko_Enabled |-> le])

\* The caller keeps to the cycle: an operation is taken where the cycle has it.
InCycle(o) == StageAfter(stage, o) # "other"

Next ==
    \/ InCycle("MergeCodes") /\ MergeCodesAct
    \/ InCycle("MarkEnabledCodes") /\ MarkEnabledCodesAct
    \/ InCycle("Toggle") /\ ToggleAct
    \/ InCycle("FillIni") /\ FillIniAct
    \/ InCycle("Discard") /\ DiscardAct

Spec == Init /\ [][Next]_vars

-----------------------------------------------------------------------------
(* Vocabulary of the properties.                                           *)

\* The elements of seq at the indices in idx, in the order of seq.
SubSeqAt(seq, idx) ==
    [k \in 1..Cardinality(idx) |->
        seq[CHOOSE i \in idx : Cardinality({j \in idx : j <= i}) = k]]

Names(gcodes) == [k \in DOMAIN gcodes |-> gcodes[k].name]

\* The lines "$" + name of the entries of gcodes that satisfy Flag, in order.
MarkerLines(gcodes, Flag(_)) ==
    LET on == SubSeqAt(gcodes, {i \in DOMAIN gcodes : Flag(gcodes[i])})
    IN  [k \in DOMAIN on |-> <<"$">> \o on[k].name]

IsEnabled(g) == g.enabled
IsBootstrap(g) == g.bootstrap_enabled

\* A [Gecko_Enabled] section names `name`: it holds the line "$" + name.
Marks(lines, name) == \E k \in DOMAIN lines : lines[k] = <<"$">> \o name

IsHeader(line) == Len(line) > 0 /\ line[1] = "$"
IsNote(line) == Len(line) > 0 /\ line[1] = "*"
IsCodeLine(line) == Len(line) > 0 /\ line[1] \notin {"$", "*"}

\* The name a header line gives: the text between '$' and the first '[',
\* without its surrounding whitespace.
HeaderName(line) ==
    LET body == Tail(line)
        open == {i \in DOMAIN body : body[i] = "["}
        cut  == IF open = {} THEN Len(body) + 1
                ELSE CHOOSE i \in open : \A j \in open : i <= j
    IN  StripSpaces(SubSeq(body, 1, cut - 1))

\* The index of the header line that line i belongs to (0: none precedes it).
HeaderOf(lines, i) ==
    LET hs == {j \in 1..(i - 1) : IsHeader(lines[j])}
    IN  IF hs = {} THEN 0 ELSE CHOOSE j \in hs : \A h \in hs : h <= j

\* Line i follows a header that has a name.
Owned(lines, i) ==
    HeaderOf(lines, i) > 0 /\ HeaderName(lines[HeaderOf(lines, i)]) # <<>>

\* The lines the last ParseCodes step read.
ParsedLines ==
    IF op = "ParseCodes(local)" THEN localIni.Gecko ELSE globalIni.Gecko

Parsed == op \in {"ParseCodes(local)", "ParseCodes(global)"}

RECURSIVE SumSeq(_)
SumSeq(ns) == IF ns = <<>> THEN 0 ELSE Head(ns) + SumSeq(Tail(ns))

SumOver(gcodes, F(_)) == SumSeq([k \in DOMAIN gcodes |-> F(gcodes[k])])

NCodes(g) == Len(g.codes)
NNotes(g) == Len(g.notes)
NLines(g) == IF g.user_defined THEN 1 + Len(g.codes) + Len(g.notes) ELSE 0

OriginalLines(g) == [k \in DOMAIN g.codes |-> g.codes[k].original_line]

\* Two entries agree on name, creator, the text of the codes, and notes.
SameText(a, b) ==
    /\ a.name = b.name
    /\ a.creator = b.creator
    /\ OriginalLines(a) = OriginalLines(b)
    /\ a.notes = b.notes

\* Two working sets agree in membership, order, origin, text and enabled.
SameSet(v, w) ==
    /\ Len(v) = Len(w)
    /\ \A i \in DOMAIN v :
          /\ SameText(v[i], w[i])
          /\ v[i].user_defined = w[i].user_defined
          /\ v[i].enabled = w[i].enabled

-----------------------------------------------------------------------------
(* C1.  MergeCodes into an empty working set.                              *)

\* C1 as stated: the merged working set contains no two entries with the
\* same name.
C1_UniqueNames ==
    op = "MergeCodes" =>
        \A i, j \in DOMAIN working_set :
            i # j => working_set[i].name # working_set[j].name

\* C1 amended: two entries of the merged working set have the same name only
\* if both were parsed from the global INI.
C1_UniqueUnlessBothGlobal ==
    op = "MergeCodes" =>
        \A i, j \in DOMAIN working_set :
            (i # j /\ working_set[i].name = working_set[j].name) =>
                (~working_set[i].user_defined /\ ~working_set[j].user_defined)

\* A merge that kept a local entry, dropped another, and kept a repeated
\* global name.
C1_Witness ==
    /\ op = "MergeCodes"
    /\ \E i \in DOMAIN working_set : working_set[i].user_defined
    /\ \E i, j \in DOMAIN working_set :
          i # j /\ working_set[i].name = working_set[j].name
    /\ Len(ParseCodes(localIni, <<>>, TRUE))
          > Cardinality({i \in DOMAIN working_set : working_set[i].user_defined})

\* C2.  The merged working set is every entry parsed from the global INI, in
\* order, followed by the entries parsed from the local INI whose name is the
\* name of no global entry and of no earlier local entry, in order.
C2_MergeOrder ==
    op = "MergeCodes" =>
        LET G    == ParseCodes(globalIni, <<>>, FALSE)
            L    == ParseCodes(localIni, <<>>, TRUE)
            kept == {i \in DOMAIN L :
                        /\ \A g \in DOMAIN G : G[g].name # L[i].name
                        /\ \A j \in 1..(i - 1) : L[j].name # L[i].name}
        IN  /\ working_set = G \o SubSeqAt(L, kept)
            /\ \A g \in DOMAIN G : ~G[g].user_defined
            /\ \A i \in DOMAIN L : L[i].user_defined

\* Global {A, B} and local {A, C} give [global A, global B, local C].
C2_Witness ==
    /\ op = "MergeCodes"
    /\ Names(ParseCodes(globalIni, <<>>, FALSE)) = << <<"A">>, <<"B">> >>
    /\ Names(ParseCodes(localIni, <<>>, TRUE)) = << <<"A">>, <<"C">> >>
    /\ Names(working_set) = << <<"A">>, <<"B">>, <<"C">> >>
    /\ [k \in DOMAIN working_set |-> working_set[k].user_defined]
          = <<FALSE, FALSE, TRUE>>

-----------------------------------------------------------------------------
(* C3.  Writing a local entry and parsing it back.                         *)

\* C3.  A local entry with a creator, written by FillIni and parsed back from
\* the written [Gecko] section as the local INI, gives exactly one entry, with
\* the same name, creator, code lines and notes.
C3_RoundTrip ==
    \A i \in DOMAIN working_set :
        LET e    == working_set[i]
            back == ParseCodes(FillIni(EmptyIni, <<e>>), <<>>, TRUE)
        IN  (e.user_defined /\ e.creator # <<>>) =>
                (Len(back) = 1 /\ SameText(back[1], e))

\* A local entry with a creator, a code and a note has been written.
C3_Witness ==
    /\ op = "FillIni"
    /\ \E i \in DOMAIN working_set :
          /\ working_set[i].user_defined
          /\ working_set[i].creator # <<>>
          /\ working_set[i].codes # <<>>
          /\ working_set[i].notes # <<>>
    /\ localIni.Gecko # <<>>

-----------------------------------------------------------------------------
(* C4, C5.  MarkEnabledCodes and MarkBootstrapCodes.                       *)

\* C4 as stated: after MarkEnabledCodes (MarkBootstrapCodes) an entry's
\* enabled (bootstrap_enabled) flag is true if and only if the section
\* applied holds the line "$" + name.
C4_Recomputed ==
    /\ op = "MarkEnabledCodes" =>
          \A i \in DOMAIN working_set :
              working_set[i].enabled
                  <=> Marks(localIni.Gecko_Enabled, working_set[i].name)
    /\ op = "MarkBootstrapCodes" =>
          \A i \in DOMAIN working_set :
              working_set[i].bootstrap_enabled
                  <=> Marks(globalIni.Gecko_Enabled, working_set[i].name)

\* C4 amended: after MarkEnabledCodes (MarkBootstrapCodes) the flag is true
\* if and only if it was true before the call or the section applied holds
\* the line "$" + name: the call sets flags and clears none.
C4_SetNeverCleared ==
    /\ op = "MarkEnabledCodes" =>
          /\ Len(working_set) = Len(prev_set)
          /\ \A i \in DOMAIN working_set :
                working_set[i].enabled
                    <=> \/ prev_set[i].enabled
                        \/ Marks(localIni.Gecko_Enabled, working_set[i].name)
    /\ op = "MarkBootstrapCodes" =>
          /\ Len(working_set) = Len(prev_set)
          /\ \A i \in DOMAIN working_set :
                working_set[i].bootstrap_enabled
                    <=> \/ prev_set[i].bootstrap_enabled
                        \/ Marks(globalIni.Gecko_Enabled, working_set[i].name)

\* MarkEnabledCodes applied to an entry that an earlier application marked
\* and that the section now applied does not name, next to one it names.
C4_Witness ==
    /\ op = "MarkEnabledCodes"
    /\ \E i \in DOMAIN working_set :
          /\ prev_set[i].enabled
          /\ ~Marks(localIni.Gecko_Enabled, working_set[i].name)
          /\ working_set[i].enabled
    /\ \E i \in DOMAIN working_set :
          /\ ~prev_set[i].enabled
          /\ Marks(localIni.Gecko_Enabled, working_set[i].name)

\* C5.  Applied to a working set whose enabled flags are all false,
\* MarkEnabledCodes sets enabled on exactly the entries whose name is the text
\* after the '$' of some line of the section, duplicates included; empty
\* lines and lines without '$' mark nothing; nothing else of the working set
\* changes.
C5_MarksExactly ==
    (op = "MarkEnabledCodes" /\ \A i \in DOMAIN prev_set : ~prev_set[i].enabled) =>
        LET lines == localIni.Gecko_Enabled
            named(n) == \E k \in DOMAIN lines :
                            IsHeader(lines[k]) /\ Tail(lines[k]) = n
        IN  /\ Len(working_set) = Len(prev_set)
            /\ \A i \in DOMAIN working_set :
                  working_set[i] =
                      [prev_set[i] EXCEPT !.enabled = named(prev_set[i].name)]

\* Entries X, Y (and more) with a section that names X, does not name Y, and
\* holds a line without '$': X is enabled, Y is not.
C5_Witness ==
    /\ op = "MarkEnabledCodes"
    /\ \A i \in DOMAIN prev_set : ~prev_set[i].enabled
    /\ \E k \in DOMAIN localIni.Gecko_Enabled : ~IsHeader(localIni.Gecko_Enabled[k])
    /\ \E i \in DOMAIN working_set :
          working_set[i].name = <<"X">> /\ working_set[i].enabled
    /\ \E i \in DOMAIN working_set :
          working_set[i].name = <<"Y">> /\ ~working_set[i].enabled

-----------------------------------------------------------------------------
(* C6.  FillIni.                                                           *)

\* C6.  FillIni writes no line of a global entry into [Gecko] (the section
\* holds one header, the codes and the notes of each local entry, and nothing
\* when every entry is global), and writes "$" + name into [Gecko_Enabled]
\* for every enabled entry, global or local, in the order of the working set.
C6_FillIni ==
    op = "FillIni" =>
        /\ Len(localIni.Gecko) = SumOver(working_set, NLines)
        /\ Cardinality({k \in DOMAIN localIni.Gecko : IsHeader(localIni.Gecko[k])})
              = Cardinality({i \in DOMAIN working_set : working_set[i].user_defined})
        /\ (\A i \in DOMAIN working_set : ~working_set[i].user_defined)
              => localIni.Gecko = <<>>
        /\ localIni.Gecko_Enabled = MarkerLines(working_set, IsEnabled)

\* A working set of global entries only, one of them enabled, has been
\* written: [Gecko] is empty and [Gecko_Enabled] is not.
C6_Witness ==
    /\ op = "FillIni"
    /\ working_set # <<>>
    /\ \A i \in DOMAIN working_set : ~working_set[i].user_defined
    /\ \E i \in DOMAIN working_set : working_set[i].enabled
    /\ prev_local.Gecko # <<>>
    /\ localIni.Gecko = <<>>
    /\ localIni.Gecko_Enabled # <<>>

-----------------------------------------------------------------------------
(* C7.  BootstrapLocalConfig.                                              *)

\* C7.  BootstrapLocalConfig sets the local [Gecko_Enabled] to the lines
\* "$" + name of the entries with bootstrap_enabled, in order, and changes
\* neither the local [Gecko] nor the entries.
C7_Bootstrap ==
    op = "BootstrapLocalConfig" =>
        /\ localIni.Gecko_Enabled = MarkerLines(working_set, IsBootstrap)
        /\ localIni.Gecko = prev_local.Gecko
        /\ working_set = prev_set

\* X with bootstrap_enabled, Y without, and enabled flags that differ from
\* the bootstrap flags: the local [Gecko_Enabled] is ["$X"].
C7_Witness ==
    /\ op = "BootstrapLocalConfig"
    /\ Names(working_set) = << <<"X">>, <<"Y">>, <<"Z">> >>
    /\ working_set[1].bootstrap_enabled /\ ~working_set[1].enabled
    /\ ~working_set[2].bootstrap_enabled /\ working_set[2].enabled
    /\ localIni.Gecko_Enabled = << <<"$", "X">> >>
    /\ prev_local.Gecko_Enabled # localIni.Gecko_Enabled
    /\ localIni.Gecko # <<>>

-----------------------------------------------------------------------------
(* C8, C9.  ParseCodes.                                                    *)

\* C8.  ParseCodes emits no entry with an empty name, and the code and note
\* lines that precede the first header or follow a header without a name are
\* in no emitted entry: the emitted entries hold as many codes and notes as
\* there are code and note lines after a header that has a name.
C8_NoEmptyName ==
    Parsed =>
        LET lines == ParsedLines
        IN  /\ \A i \in DOMAIN working_set : working_set[i].name # <<>>
            /\ SumOver(working_set, NCodes)
                  = Cardinality({i \in DOMAIN lines :
                                    IsCodeLine(lines[i]) /\ Owned(lines, i)})
            /\ SumOver(working_set, NNotes)
                  = Cardinality({i \in DOMAIN lines :
                                    IsNote(lines[i]) /\ Owned(lines, i)})

\* A parse of a section with a code line under a header without a name, and
\* a header with a name.
C8_Witness ==
    /\ Parsed
    /\ working_set # <<>>
    /\ \E i \in DOMAIN ParsedLines :
          /\ IsCodeLine(ParsedLines[i])
          /\ HeaderOf(ParsedLines, i) > 0
          /\ ~Owned(ParsedLines, i)

\* C9.  Every header with a name gives exactly one entry, in input order,
\* whatever lines surround it, and every code line after it, up to the next
\* header, is one code of that entry with original_line the raw line, whether
\* or not it decodes.
C9_NeverStops ==
    Parsed =>
        LET lines == ParsedLines
            hs    == {i \in DOMAIN lines :
                        IsHeader(lines[i]) /\ HeaderName(lines[i]) # <<>>}
            hseq  == SubSeqAt([i \in DOMAIN lines |-> i], hs)
        IN  /\ Len(working_set) = Cardinality(hs)
            /\ \A k \in DOMAIN working_set :
                  /\ working_set[k].name = HeaderName(lines[hseq[k]])
                  /\ OriginalLines(working_set[k])
                        = SubSeqAt(lines, {i \in DOMAIN lines :
                                             /\ IsCodeLine(lines[i])
                                             /\ HeaderOf(lines, i) = hseq[k]})

\* A parse in which a line that does not decode (address and data 0) is a
\* code of an entry, and a later header, the last line, repeats the name.
C9_Witness ==
    /\ Parsed
    /\ Len(working_set) = 2
    /\ working_set[1].name = working_set[2].name
    /\ \E c \in DOMAIN working_set[1].codes :
          /\ working_set[1].codes[c].original_line = <<"Z", "Z">>
          /\ working_set[1].codes[c].address = 0
          /\ working_set[1].codes[c].data = 0
    /\ IsHeader(ParsedLines[Len(ParsedLines)])

-----------------------------------------------------------------------------
(* C10.  Save and reload.                                                  *)

\* C10 as stated: the working set reloaded after FillIni (a fresh MergeCodes,
\* then MarkEnabledCodes) is the working set that was saved.
C10_ReloadSame ==
    stage = "reloaded" => SameSet(working_set, saved_set)

\* C10 amended: the reloaded working set is the saved one provided the saved
\* entries with the same name have the same enabled flag.
C10_ReloadSameIfNamesAgree ==
    (/\ stage = "reloaded"
     /\ \A i, j \in DOMAIN saved_set :
           saved_set[i].name = saved_set[j].name
               => saved_set[i].enabled = saved_set[j].enabled)
    => SameSet(working_set, saved_set)

\* A reload of a saved working set with a global and a local entry, in which
\* the caller had enabled B, which no initial [Gecko_Enabled] names.
C10_Witness ==
    /\ stage = "reloaded"
    /\ \E i \in DOMAIN saved_set : ~saved_set[i].user_defined
    /\ \E i \in DOMAIN saved_set :
          saved_set[i].user_defined /\ saved_set[i].codes # <<>>
    /\ \E i \in DOMAIN saved_set :
          saved_set[i].name = <<"B">> /\ saved_set[i].enabled
    /\ \E i \in DOMAIN saved_set : ~saved_set[i].enabled
    /\ \A i, j \in DOMAIN saved_set :
           saved_set[i].name = saved_set[j].name
               => saved_set[i].enabled = saved_set[j].enabled

====
